---------------------------- MODULE Spec2Model ----------------------------
(***************************************************************************)
(* Model of src/app.py: the bank_query pipeline                            *)
(*   classify_query_with_deepseek -> endpoint_map -> fetch_bank_data       *)
(*   -> convert_json_to_readable_format -> {"response": ...}.              *)
(*                                                                         *)
(* Text is a sequence of one-character strings, so that str.strip() and    *)
(* str.lower() are computed character by character.  The text-generation   *)
(* service (ollama.chat) and the banking backend (requests.post) are the   *)
(* environment: what they answer is an input of the Return actions.        *)
(***************************************************************************)
EXTENDS Integers, Sequences, FiniteSets, TLC

(***************************************************************************)
(* Bounds of the model.                                                    *)
(***************************************************************************)
\* number of bank_query executions that may be in progress together
NumRequests == 2
\* most whitespace characters put on either side of a classifier reply
MaxPad == 1
\* longest text the humanization call answers with
MaxTextLen == 2

Requests == 1..NumRequests

(***************************************************************************)
(* Characters and the two str methods the code uses.                       *)
(***************************************************************************)
Lowercase ==
    << "a", "b", "c", "d", "e", "f", "g", "h", "i", "j", "k", "l", "m",
       "n", "o", "p", "q", "r", "s", "t", "u", "v", "w", "x", "y", "z" >>
Uppercase ==
    << "A", "B", "C", "D", "E", "F", "G", "H", "I", "J", "K", "L", "M",
       "N", "O", "P", "Q", "R", "S", "T", "U", "V", "W", "X", "Y", "Z" >>

\* the characters str.strip() removes (those of them the model's texts use)
Whitespace == {" ", "\t", "\n"}

LowerChar(c) ==
    IF \E i \in DOMAIN Uppercase : Uppercase[i] = c
    THEN Lowercase[CHOOSE i \in DOMAIN Uppercase : Uppercase[i] = c]
    ELSE c

UpperChar(c) ==
    IF \E i \in DOMAIN Lowercase : Lowercase[i] = c
    THEN Uppercase[CHOOSE i \in DOMAIN Lowercase : Lowercase[i] = c]
    ELSE c

\* str.lower()
lower(s) == [i \in DOMAIN s |-> LowerChar(s[i])]

\* str.upper(), used to build the replies the environment may give
upper(s) == [i \in DOMAIN s |-> UpperChar(s[i])]

\* mutant of strip: str.lstrip(), trailing whitespace is kept
lstrip(s) ==
    LET keep == {i \in DOMAIN s : s[i] \notin Whitespace}
    IN  IF keep = {} THEN << >>
        ELSE SubSeq(s, CHOOSE i \in keep : \A j \in keep : i <= j, Len(s))

\* str.strip(): leading and trailing whitespace removed, the inside kept
strip(s) ==
    LET keep == {i \in DOMAIN s : s[i] \notin Whitespace}
    IN  IF keep = {} THEN << >>
        ELSE SubSeq(s, CHOOSE i \in keep : \A j \in keep : i <= j,
                       CHOOSE i \in keep : \A j \in keep : j <= i)

(***************************************************************************)
(* The labels of src/app.py.                                               *)
(***************************************************************************)
balance == << "b", "a", "l", "a", "n", "c", "e" >>
mini_statement ==
    << "m", "i", "n", "i", "_", "s", "t", "a", "t", "e", "m", "e", "n", "t" >>
last_transaction ==
    << "l", "a", "s", "t", "_", "t", "r", "a", "n", "s", "a", "c", "t", "i",
       "o", "n" >>
loan_balance ==
    << "l", "o", "a", "n", "_", "b", "a", "l", "a", "n", "c", "e" >>
unknown == << "u", "n", "k", "n", "o", "w", "n" >>

\* mutant of AllowedLabels: a label is allowed that has no routing entry
AllowedLabelsExtra ==
    {balance, mini_statement, last_transaction, loan_balance,
     << "t", "r", "a", "n", "s", "f", "e", "r", "_", "f", "u", "n", "d", "s" >>}

\* the list of line 43
AllowedLabels == {balance, mini_statement, last_transaction, loan_balance}

\* mutant of NormalizeContent: the reply is trimmed but not lowercased
NormalizeNoLower(content) == strip(content)

\* line 42: response["message"]["content"].strip().lower()
NormalizeContent(content) == lower(strip(content))

\* lines 42-43 of classify_query_with_deepseek, given the reply's content
ClassifyContent(content) ==
    LET query_type == NormalizeContent(content)
    IN  IF query_type \in AllowedLabels THEN query_type ELSE unknown

\* mutant of endpoint_map: 'unknown' is given a default endpoint
endpoint_map_default ==
    (balance :> "account/balance") @@
    (mini_statement :> "account/mini-statement") @@
    (last_transaction :> "account/transactions") @@
    (loan_balance :> "account/loan-balance") @@
    (unknown :> "account/balance")

\* mutant of endpoint_map: two categories share one endpoint
endpoint_map_shared ==
    (balance :> "account/balance") @@
    (mini_statement :> "account/mini-statement") @@
    (last_transaction :> "account/transactions") @@
    (loan_balance :> "account/balance")

\* lines 82-87
endpoint_map ==
    (balance :> "account/balance") @@
    (mini_statement :> "account/mini-statement") @@
    (last_transaction :> "account/transactions") @@
    (loan_balance :> "account/loan-balance")

\* lines 16-17: process-wide configuration, read once at import
BANK_API_URL == "BANK_API_URL"
BANK_API_KEY == "BANK_API_KEY"


(***************************************************************************)
(* Values.                                                                 *)
(***************************************************************************)
\* not yet assigned: a text, a backend body, a request
NoText == << "<unset>" >>
NoJson == [unset |-> TRUE]
NoRequest == [unset |-> TRUE]

\* BankQuery, lines 20-22
BankQuery(account_number, query_text) ==
    [account_number |-> account_number, query_text |-> query_text]

\* the f-string of lines 27-38: the fixed template around query_text
ClassifyPrompt(query_text) ==
    [template |-> "Classify the following banking query",
     query_text |-> query_text]

\* mutant of HumanizePrompt: the query text is left out of the prompt
HumanizePromptNoQuery(query_text, raw_json) ==
    [template |-> "Convert the following banking API JSON response",
     query_text |-> << >>, raw_json |-> raw_json]

\* the f-string of lines 61-69: the fixed template, query_text and raw_json
HumanizePrompt(query_text, raw_json) ==
    [template |-> "Convert the following banking API JSON response",
     query_text |-> query_text, raw_json |-> raw_json]

\* lines 40 and 71: ollama.chat(model="deepseek", messages=[user prompt])
OllamaChat(caller, prompt) ==
    [fn |-> "ollama.chat", caller |-> caller, model |-> "deepseek",
     messages |-> << [role |-> "user", content |-> prompt] >>]

\* lines 48-52: requests.post(f"{BANK_API_URL}/{endpoint}", json=, headers=)
RequestsPost(endpoint, payload) ==
    [fn |-> "requests.post", caller |-> "fetch_bank_data",
     url |-> << BANK_API_URL, "/", endpoint >>,
     json |-> payload,
     headers |-> [Authorization |-> << "Bearer ", BANK_API_KEY >>,
                  ContentType |-> "application/json"]]

\* what bank_query ends with
NoOutcome == [type |-> "none"]

\* line 98: return {"response": readable_response}
Reply(readable_response) == [type |-> "return", response |-> readable_response]

\* lines 56 and 90: raise HTTPException(status_code=, detail=)
HTTPException(status_code, detail) ==
    [type |-> "HTTPException", status_code |-> status_code, detail |-> detail]

\* an exception of ollama.chat or response.json() that no except clause
\* catches: it leaves bank_query
Uncaught(raised_in, text) ==
    [type |-> "uncaught", raised_in |-> raised_in, text |-> text]

\* the status code of lines 56 and 90
BadRequest == 400

\* line 90
NotRecognized == << "Query not recognized. Try rephrasing." >>

\* mutant of ApiErrorDetail: the cause is left out of the detail
ApiErrorDetailBare(text) == << "API Error: " >>

\* line 56: f"API Error: {str(e)}"
ApiErrorDetail(text) == << "API Error: ", text >>

(***************************************************************************)
(* What the environment may answer.                                        *)
(***************************************************************************)
\* an answer of ollama.chat: a message with a content, or an exception
ChatOk(content) == [kind |-> "ok", content |-> content]
ChatError(text) == [kind |-> "error", text |-> text]

\* an answer of the backend: a 2xx with a JSON body, a non-2xx status
\* (raise_for_status), no answer at all (ConnectionError, Timeout), or a 2xx
\* whose body is not JSON (response.json() raises)
BankOk(body) == [kind |-> "ok", body |-> body]
BankHttpError(text) == [kind |-> "http_error", text |-> text]
BankTransportError(text) == [kind |-> "transport", text |-> text]
BankBadJson(text) == [kind |-> "bad_json", text |-> text]

\* a call that has been issued and has not returned
Pending == [kind |-> "pending"]

VARIABLES
    pc,                 \* pc[r]: where execution r of bank_query is
    request,            \* request[r]: the BankQuery of r
    query_type,         \* query_type[r], line 80
    raw_response,       \* raw_response[r], line 93
    readable_response,  \* readable_response[r], line 96
    outcome,            \* what r returned or raised
    calls,              \* calls[r]: the outbound calls of r, with their answers
    json_error_caught   \* whether the installed requests raises a
                        \* RequestException when a body is not JSON

vars == << pc, request, query_type, raw_response, readable_response, outcome,
           calls, json_error_caught >>

Init ==
    /\ pc = [r \in Requests |-> "Idle"]
    /\ request = [r \in Requests |-> NoRequest]
    /\ query_type = [r \in Requests |-> NoText]
    /\ raw_response = [r \in Requests |-> NoJson]
    /\ readable_response = [r \in Requests |-> NoText]
    /\ outcome = [r \in Requests |-> NoOutcome]
    /\ calls = [r \in Requests |-> << >>]
    /\ json_error_caught \in BOOLEAN

\* the call is issued: it joins the calls of r, unanswered
Issue(r, call) ==
    calls' = [calls EXCEPT ![r] = Append(@, [call |-> call, answer |-> Pending])]

\* the call in flight is answered
Answer(r, res) ==
    calls' = [calls EXCEPT ![r][Len(calls[r])].answer = res]

\* bank_query raises or returns
Finish(r, state, result) ==
    /\ pc' = [pc EXCEPT ![r] = state]
    /\ outcome' = [outcome EXCEPT ![r] = result]

(***************************************************************************)
(* bank_query, one action per step between two outbound calls.             *)
(***************************************************************************)
\* POST /bank_query/ arrives and is parsed into a BankQuery (lines 75-76)
Receive(r, q) ==
    /\ pc[r] = "Idle"
    /\ request' = [request EXCEPT ![r] = q]
    /\ pc' = [pc EXCEPT ![r] = "Received"]
    /\ UNCHANGED << query_type, raw_response, readable_response, outcome,
                    calls, json_error_caught >>

\* line 80 into line 40: the classification prompt is sent
ClassifyCall(r) ==
    /\ pc[r] = "Received"
    /\ Issue(r, OllamaChat("classify_query_with_deepseek",
                           ClassifyPrompt(request[r].query_text)))
    /\ pc' = [pc EXCEPT ![r] = "Classifying"]
    /\ UNCHANGED << request, query_type, raw_response, readable_response,
                    outcome, json_error_caught >>

\* mutant of ClassifyReturn: an exception of ollama.chat is swallowed and
\* the query is classified 'unknown'
ClassifyReturnFallback(r, res) ==
    /\ pc[r] = "Classifying"
    /\ Answer(r, res)
    /\ query_type' =
          [query_type EXCEPT
             ![r] = IF res.kind = "ok" THEN ClassifyContent(res.content)
                    ELSE unknown]
    /\ pc' = [pc EXCEPT ![r] = "Classified"]
    /\ UNCHANGED << request, raw_response, readable_response, outcome,
                    json_error_caught >>

\* lines 40-43 and the assignment of line 80: ollama.chat answers; an
\* exception of it is caught nowhere and leaves bank_query
ClassifyReturn(r, res) ==
    /\ pc[r] = "Classifying"
    /\ Answer(r, res)
    /\ IF res.kind = "ok"
       THEN /\ query_type' =
                   [query_type EXCEPT ![r] = ClassifyContent(res.content)]
            /\ pc' = [pc EXCEPT ![r] = "Classified"]
            /\ UNCHANGED outcome
       ELSE /\ Finish(r, "Errored",
                      Uncaught("classify_query_with_deepseek", res.text))
            /\ UNCHANGED query_type
    /\ UNCHANGED << request, raw_response, readable_response,
                    json_error_caught >>

\* mutant of Route: an unrecognized query is classified again
RouteReclassify(r) ==
    /\ pc[r] = "Classified"
    /\ pc' = [pc EXCEPT ![r] = IF query_type[r] \notin DOMAIN endpoint_map
                               THEN "Received" ELSE "Routed"]
    /\ UNCHANGED << request, query_type, raw_response, readable_response,
                    outcome, calls, json_error_caught >>

\* mutant of Route: the membership test is left out
RouteUnchecked(r) ==
    /\ pc[r] = "Classified"
    /\ pc' = [pc EXCEPT ![r] = "Routed"]
    /\ UNCHANGED << request, query_type, raw_response, readable_response,
                    outcome, calls, json_error_caught >>

\* lines 82-90: the membership test on endpoint_map
Route(r) ==
    /\ pc[r] = "Classified"
    /\ IF query_type[r] \notin DOMAIN endpoint_map
       THEN Finish(r, "Errored", HTTPException(BadRequest, NotRecognized))
       ELSE /\ pc' = [pc EXCEPT ![r] = "Routed"]
            /\ UNCHANGED outcome
    /\ UNCHANGED << request, query_type, raw_response, readable_response,
                    calls, json_error_caught >>

\* line 93 into lines 47-52: the backend request is sent
FetchCall(r) ==
    /\ pc[r] = "Routed"
    /\ Issue(r, RequestsPost(endpoint_map[query_type[r]],
                             [account_number |-> request[r].account_number]))
    /\ pc' = [pc EXCEPT ![r] = "Fetching"]
    /\ UNCHANGED << request, query_type, raw_response, readable_response,
                    outcome, json_error_caught >>

\* mutant of FetchReturn: a failed backend call is tried again
FetchReturnRetry(r, res) ==
    /\ pc[r] = "Fetching"
    /\ Answer(r, res)
    /\ IF res.kind = "ok"
       THEN /\ raw_response' = [raw_response EXCEPT ![r] = res.body]
            /\ pc' = [pc EXCEPT ![r] = "Fetched"]
       ELSE /\ pc' = [pc EXCEPT ![r] = "Routed"]
            /\ UNCHANGED raw_response
    /\ UNCHANGED << request, query_type, readable_response, outcome,
                    json_error_caught >>

\* lines 52-56 and the assignment of line 93: the backend answers
FetchReturn(r, res) ==
    /\ pc[r] = "Fetching"
    /\ Answer(r, res)
    /\ CASE res.kind = "ok" ->
              /\ raw_response' = [raw_response EXCEPT ![r] = res.body]
              /\ pc' = [pc EXCEPT ![r] = "Fetched"]
              /\ UNCHANGED outcome
         [] res.kind = "bad_json" /\ ~json_error_caught ->
              /\ Finish(r, "Errored", Uncaught("fetch_bank_data", res.text))
              /\ UNCHANGED raw_response
         [] OTHER ->
              /\ Finish(r, "Errored",
                        HTTPException(BadRequest, ApiErrorDetail(res.text)))
              /\ UNCHANGED raw_response
    /\ UNCHANGED << request, query_type, readable_response,
                    json_error_caught >>

\* mutant of HumanizeCall: raw_response is a module-level variable, so the
\* prompt may carry the payload another execution fetched
HumanizeCallShared(r) ==
    /\ pc[r] = "Fetched"
    /\ \E s \in Requests :
          /\ raw_response[s] # NoJson
          /\ Issue(r, OllamaChat("convert_json_to_readable_format",
                                 HumanizePrompt(request[r].query_text,
                                                raw_response[s])))
    /\ pc' = [pc EXCEPT ![r] = "Humanizing"]
    /\ UNCHANGED << request, query_type, raw_response, readable_response,
                    outcome, json_error_caught >>

\* mutant of HumanizeCall: the humanization prompt is sent without waiting
\* for the backend's answer
HumanizeCallEarly(r) ==
    /\ pc[r] \in {"Fetching", "Fetched"}
    /\ Issue(r, OllamaChat("convert_json_to_readable_format",
                           HumanizePrompt(request[r].query_text,
                                          raw_response[r])))
    /\ pc' = [pc EXCEPT ![r] = "Humanizing"]
    /\ UNCHANGED << request, query_type, raw_response, readable_response,
                    outcome, json_error_caught >>

\* line 96 into lines 61-71: the humanization prompt is sent
HumanizeCall(r) ==
    /\ pc[r] = "Fetched"
    /\ Issue(r, OllamaChat("convert_json_to_readable_format",
                           HumanizePrompt(request[r].query_text,
                                          raw_response[r])))
    /\ pc' = [pc EXCEPT ![r] = "Humanizing"]
    /\ UNCHANGED << request, query_type, raw_response, readable_response,
                    outcome, json_error_caught >>

\* mutant of HumanizeResult: the content is returned as it came
HumanizeResultRaw(content) == content

\* line 73: response["message"]["content"].strip()
HumanizeResult(content) == strip(content)

\* mutant of HumanizeReturn: when ollama.chat raises, the raw payload is
\* rendered and returned in place of the humanized text
HumanizeReturnFallback(r, res) ==
    /\ pc[r] = "Humanizing"
    /\ Answer(r, res)
    /\ readable_response' =
          [readable_response EXCEPT
             ![r] = IF res.kind = "ok" THEN HumanizeResult(res.content)
                    ELSE << "{", "}" >>]
    /\ pc' = [pc EXCEPT ![r] = "Humanized"]
    /\ UNCHANGED << request, query_type, raw_response, outcome,
                    json_error_caught >>

\* lines 71-73 and the assignment of line 96: ollama.chat answers
HumanizeReturn(r, res) ==
    /\ pc[r] = "Humanizing"
    /\ Answer(r, res)
    /\ IF res.kind = "ok"
       THEN /\ readable_response' =
                   [readable_response EXCEPT ![r] = HumanizeResult(res.content)]
            /\ pc' = [pc EXCEPT ![r] = "Humanized"]
            /\ UNCHANGED outcome
       ELSE /\ Finish(r, "Errored",
                      Uncaught("convert_json_to_readable_format", res.text))
            /\ UNCHANGED readable_response
    /\ UNCHANGED << request, query_type, raw_response, json_error_caught >>

\* mutant of Complete: an empty humanized text is refused with an error
CompleteValidated(r) ==
    /\ pc[r] = "Humanized"
    /\ IF readable_response[r] = << >>
       THEN Finish(r, "Errored",
                   HTTPException(BadRequest, << "Empty response" >>))
       ELSE Finish(r, "Completed", Reply(readable_response[r]))
    /\ UNCHANGED << request, query_type, raw_response, readable_response,
                    calls, json_error_caught >>

\* mutant of Complete: the reply carries a count kept across requests
CompleteStamped(r) ==
    /\ pc[r] = "Humanized"
    /\ Finish(r, "Completed",
              [type |-> "return", response |-> readable_response[r],
               served |-> Cardinality({s \in Requests : pc[s] = "Completed"})])
    /\ UNCHANGED << request, query_type, raw_response, readable_response,
                    calls, json_error_caught >>

\* line 98
Complete(r) ==
    /\ pc[r] = "Humanized"
    /\ Finish(r, "Completed", Reply(readable_response[r]))
    /\ UNCHANGED << request, query_type, raw_response, readable_response,
                    calls, json_error_caught >>

(***************************************************************************)
(* The inputs: requests, and the answers of the two services.              *)
(***************************************************************************)
Repeat(c, n) == [i \in 1..n |-> c]

Capitalize(s) == [i \in DOMAIN s |-> IF i = 1 THEN UpperChar(s[i]) ELSE s[i]]

\* lines 29-32: the categories the prompt asks the service to answer with
PromptCategories == {balance, mini_statement, last_transaction, loan_balance}

transfer_funds ==
    << "t", "r", "a", "n", "s", "f", "e", "r", "_", "f", "u", "n", "d", "s" >>

\* a label as the service may spell it
CaseVariants(label) == {label, Capitalize(label), upper(label)}

\* a text with up to MaxPad blanks before it and up to MaxPad newlines after
Padded(s) ==
    {Repeat(" ", i) \o s \o Repeat("\n", j) : i, j \in 0..MaxPad}

\* replies that are no label: nothing, 'unknown', an unsupported label, a
\* part of a label, a label among other words, a label with a blank inside
OtherContents ==
    { << >>, unknown, transfer_funds, SubSeq(balance, 1, 3),
      << "m", "y", " " >> \o balance, balance \o << "." >>,
      << "l", "o", "a", "n", " " >> \o balance }

\* the contents the classification call may be answered with
ClassifyContents ==
    UNION {Padded(v) :
             v \in UNION {CaseVariants(l) : l \in PromptCategories}
                   \cup OtherContents}

\* the contents the humanization call may be answered with
HumanizeContents == UNION {[1..n -> {" ", "A"}] : n \in 0..MaxTextLen}

Accounts == {"123", "456"}
QueryTexts == {<< >>, balance}
Queries == {BankQuery(a, t) : a \in Accounts, t \in QueryTexts}

Bodies == {[balance |-> 100], [transactions |-> << >>]}

ChatAnswers(contents) ==
    {ChatOk(c) : c \in contents} \cup {ChatError("connection refused")}

BankAnswers ==
    {BankOk(b) : b \in Bodies}
      \cup {BankHttpError("500 Server Error"),
            BankTransportError("Connection refused"),
            BankBadJson("Expecting value")}

\* every step execution r can take, its inputs drawn from the given sets
Step(r, queries, classifyAnswers, bankAnswers, humanizeAnswers) ==
    \/ \E q \in queries : Receive(r, q)
    \/ ClassifyCall(r)
    \/ \E res \in classifyAnswers : ClassifyReturn(r, res)
    \/ Route(r)
    \/ FetchCall(r)
    \/ \E res \in bankAnswers : FetchReturn(r, res)
    \/ HumanizeCall(r)
    \/ \E res \in humanizeAnswers : HumanizeReturn(r, res)
    \/ Complete(r)

(***************************************************************************)
(* Spec: one execution of bank_query, with every answer above.             *)
(***************************************************************************)
Next ==
    \E r \in {1} :
        Step(r, Queries, ChatAnswers(ClassifyContents), BankAnswers,
             ChatAnswers(HumanizeContents))

Spec == Init /\ [][Next]_vars

(***************************************************************************)
(* SpecFair: Spec, where an execution that can take a step takes one: the  *)
(* interpreter runs the handler on, and a call that was issued is answered *)
(* or fails.  Whether a request arrives at all is left open.               *)
(***************************************************************************)
Progress(r) ==
    Step(r, {}, ChatAnswers(ClassifyContents), BankAnswers,
         ChatAnswers(HumanizeContents))

SpecFair == Spec /\ \A r \in {1} : WF_vars(Progress(r))

(***************************************************************************)
(* SpecConc: NumRequests executions of bank_query, interleaved in any      *)
(* order, each with its own answers drawn from a few.                      *)
(***************************************************************************)
ConcQueries == {BankQuery("123", << >>), BankQuery("456", balance)}

ConcClassifyAnswers ==
    ChatAnswers({<< " " >> \o Capitalize(balance) \o << "\n" >>, unknown})

ConcBankAnswers ==
    {BankOk(b) : b \in Bodies}
      \cup {BankHttpError("500 Server Error"), BankBadJson("Expecting value")}

ConcHumanizeAnswers == ChatAnswers({<< "A" >>, << " ", "A", " ", "A", "\n" >>})

NextConc ==
    \E r \in Requests :
        Step(r, ConcQueries, ConcClassifyAnswers, ConcBankAnswers,
             ConcHumanizeAnswers)

SpecConc == Init /\ [][NextConc]_vars

(***************************************************************************)
(* Vocabulary of the properties.                                           *)
(***************************************************************************)
\* the four operational categories of the specification
Operational == {balance, mini_statement, last_transaction, loan_balance}

Terminal(r) == pc[r] \in {"Completed", "Errored"}

\* the positions of the calls execution r made from function caller
CallsFrom(r, caller) ==
    {i \in DOMAIN calls[r] : calls[r][i].call.caller = caller}

Invoked(r, caller) == CallsFrom(r, caller) # {}

\* the answer to the call r made from caller (Pending while in flight)
AnswerTo(r, caller) ==
    calls[r][CHOOSE i \in DOMAIN calls[r] : i \in CallsFrom(r, caller)].answer

Answered(r, caller, kinds) ==
    Invoked(r, caller) /\ AnswerTo(r, caller).kind \in kinds

ClassifiedOk(r) == Answered(r, "classify_query_with_deepseek", {"ok"})
ClassifyContentOf(r) == AnswerTo(r, "classify_query_with_deepseek").content
FetchedOk(r) == Answered(r, "fetch_bank_data", {"ok"})
HumanizedOk(r) == Answered(r, "convert_json_to_readable_format", {"ok"})
HumanizeContentOf(r) == AnswerTo(r, "convert_json_to_readable_format").content

AllWhitespace(s, from, to) == \A k \in from..to : s[k] \in Whitespace

\* t is s without the whitespace at its two ends
IsTrimOf(t, s) ==
    \E i, j \in 0..Len(s) :
        /\ i + Len(t) + j = Len(s)
        /\ AllWhitespace(s, 1, i)
        /\ AllWhitespace(s, Len(s) - j + 1, Len(s))
        /\ \A k \in 1..Len(t) : s[i + k] = t[k]
        /\ t # << >> => t[1] \notin Whitespace /\ t[Len(t)] \notin Whitespace

\* s is label c in some letter case, between whitespace
NormalizesTo(s, c) ==
    \E i, j \in 0..Len(s) :
        /\ i + Len(c) + j = Len(s)
        /\ AllWhitespace(s, 1, i)
        /\ AllWhitespace(s, Len(s) - j + 1, Len(s))
        /\ \A k \in 1..Len(c) : s[i + k] \in {c[k], UpperChar(c[k])}

\* the error kinds of the specification, as bank_query shows them
UnrecognizedQuery(o) == o = HTTPException(400, NotRecognized)

BackendError(o, text) ==
    /\ o.type = "HTTPException"
    /\ o.status_code = 400
    /\ o.detail[1] = "API Error: "
    /\ \E i \in DOMAIN o.detail : o.detail[i] = text

ClassificationFailure(o) ==
    o.type = "uncaught" /\ o.raised_in = "classify_query_with_deepseek"

(***************************************************************************)
(* The claims.                                                             *)
(***************************************************************************)
\* C1: when the classifier's reply is an operational label between
\* whitespace in any letter case, the backend answers with a body and the
\* humanizer answers with a text, bank_query is at its return statement or
\* has returned, no error was raised, and what it returns is a Reply whose
\* response is that text without the whitespace at its ends.
C1_HappyPathReply ==
    \A r \in Requests :
        ( /\ ClassifiedOk(r)
          /\ \E c \in Operational : NormalizesTo(ClassifyContentOf(r), c)
          /\ FetchedOk(r)
          /\ HumanizedOk(r) )
        => /\ pc[r] \in {"Humanized", "Completed"}
           /\ pc[r] = "Humanized" => outcome[r] = NoOutcome /\ ENABLED Complete(r)
           /\ pc[r] = "Completed" =>
                /\ outcome[r].type = "return"
                /\ IsTrimOf(outcome[r].response, HumanizeContentOf(r))

\* C1 witness: a request completed whose humanizer text had whitespace at
\* both ends and whose classifier reply was a padded, capitalised label
C1_Witness ==
    \E r \in Requests :
        /\ pc[r] = "Completed"
        /\ ClassifyContentOf(r) = << " " >> \o Capitalize(loan_balance) \o << "\n" >>
        /\ HumanizeContentOf(r) = << " ", "A" >>
        /\ outcome[r] = Reply(<< "A" >>)

\* C2: once the classification is 'unknown' (the service said 'unknown',
\* or an unsupported label such as 'transfer_funds'), the execution is at
\* the routing test or has failed with HTTP 400 "Query not recognized. Try
\* rephrasing.", and its only outbound call is the classification call.
C2_UnknownRejected ==
    \A r \in Requests :
        /\ ( ClassifiedOk(r)
             /\ ClassifyContentOf(r) \in {unknown, transfer_funds} )
           => query_type[r] = unknown
        /\ query_type[r] = unknown
           => /\ pc[r] \in {"Classified", "Errored"}
              /\ pc[r] = "Classified" => outcome[r] = NoOutcome
              /\ pc[r] = "Errored" => UnrecognizedQuery(outcome[r])
              /\ ~Invoked(r, "fetch_bank_data")
              /\ ~Invoked(r, "convert_json_to_readable_format")

\* C2 witness: a request rejected after the service answered transfer_funds
C2_Witness ==
    \E r \in Requests :
        /\ pc[r] = "Errored"
        /\ ClassifiedOk(r)
        /\ ClassifyContentOf(r) = transfer_funds
        /\ UnrecognizedQuery(outcome[r])

\* C3: when the backend call fails, by a non-success status or at the
\* transport, the execution has failed with HTTP 400 whose detail is
\* "API Error: " followed by the upstream error text, and the humanizer
\* was not invoked.
C3_BackendError ==
    \A r \in Requests :
        Answered(r, "fetch_bank_data", {"http_error", "transport"})
        => /\ ClassifiedOk(r)
           /\ pc[r] = "Errored"
           /\ BackendError(outcome[r], AnswerTo(r, "fetch_bank_data").text)
           /\ ~Invoked(r, "convert_json_to_readable_format")

\* C3 witness: a request failed on a non-success status of the backend
C3_Witness ==
    \E r \in Requests :
        /\ Answered(r, "fetch_bank_data", {"http_error"})
        /\ pc[r] = "Errored"
        /\ outcome[r].detail = << "API Error: ", "500 Server Error" >>

\* C4: when the classification call raises, the execution has failed with
\* that exception (a classification failure, not "Query not recognized"),
\* no category was assigned (neither 'unknown' nor any other) and the
\* classification call is its only outbound call.
C4_ClassificationFailure ==
    \A r \in Requests :
        Answered(r, "classify_query_with_deepseek", {"error"})
        => /\ pc[r] = "Errored"
           /\ ClassificationFailure(outcome[r])
           /\ outcome[r].text = AnswerTo(r, "classify_query_with_deepseek").text
           /\ ~UnrecognizedQuery(outcome[r])
           /\ query_type[r] = NoText
           /\ ~Invoked(r, "fetch_bank_data")
           /\ ~Invoked(r, "convert_json_to_readable_format")

\* C4 witness: a request whose classification call raised
C4_Witness ==
    \E r \in Requests :
        /\ Answered(r, "classify_query_with_deepseek", {"error"})
        /\ pc[r] = "Errored"
        /\ Len(calls[r]) = 1

\* C5: when the humanization call raises, the execution has failed with
\* that exception and returned nothing: no Reply, and in particular not
\* the backend's payload.
C5_NoPartialResponse ==
    \A r \in Requests :
        Answered(r, "convert_json_to_readable_format", {"error"})
        => /\ pc[r] = "Errored"
           /\ outcome[r].type = "uncaught"
           /\ outcome[r].raised_in = "convert_json_to_readable_format"
           /\ readable_response[r] = NoText
           /\ raw_response[r] # NoJson

\* C5 witness: a request that got a backend body and whose humanization
\* call raised
C5_Witness ==
    \E r \in Requests :
        /\ Answered(r, "convert_json_to_readable_format", {"error"})
        /\ raw_response[r] = [balance |-> 100]
        /\ pc[r] = "Errored"

\* C6: once the classification call has answered, the category is an
\* operational label c exactly when the reply is c in some letter case
\* between whitespace, and 'unknown' for every other reply; this holds
\* whatever the query text is, the empty one included.
C6_ClassifyExactMatch ==
    \A r \in Requests :
        ClassifiedOk(r)
        => /\ query_type[r] \in Operational \cup {unknown}
           /\ \A c \in Operational :
                 query_type[r] = c <=> NormalizesTo(ClassifyContentOf(r), c)
           /\ (\A c \in Operational : ~NormalizesTo(ClassifyContentOf(r), c))
                 => query_type[r] = unknown

\* C6 witness: the empty query text classified last_transaction because the
\* service answered that label in capitals with a trailing newline
C6_Witness ==
    \E r \in Requests :
        /\ ClassifiedOk(r)
        /\ request[r].query_text = << >>
        /\ ClassifyContentOf(r) = upper(last_transaction) \o << "\n" >>
        /\ query_type[r] = last_transaction

\* C7 as first stated: every classifier reply that is not itself one of
\* the four labels, the whitespace-padded and differently-cased spellings
\* of a label among them, ends the execution with "Query not recognized".
C7_VariantsRejected ==
    \A r \in Requests :
        ( /\ ClassifiedOk(r)
          /\ ClassifyContentOf(r) \notin Operational
          /\ Terminal(r) )
        => UnrecognizedQuery(outcome[r])

\* C7 amended: past the routing test, a reply that is no operational label
\* even after trimming and lowercasing has ended the execution with "Query
\* not recognized", while a whitespace-padded or differently-cased
\* spelling of a label was accepted as that label: the execution went on
\* to the backend and never ends with "Query not recognized".
C7_NormalizedRejection ==
    \A r \in Requests :
        (ClassifiedOk(r) /\ pc[r] # "Classified")
        => IF \E c \in Operational : NormalizesTo(ClassifyContentOf(r), c)
           THEN /\ ~UnrecognizedQuery(outcome[r])
                /\ pc[r] = "Routed" \/ Invoked(r, "fetch_bank_data")
           ELSE /\ pc[r] = "Errored"
                /\ UnrecognizedQuery(outcome[r])

\* C7 witness: a request completed although the classifier answered
\* " Balance" followed by a newline
C7_Witness ==
    \E r \in Requests :
        /\ ClassifiedOk(r)
        /\ ClassifyContentOf(r) = << " " >> \o Capitalize(balance) \o << "\n" >>
        /\ query_type[r] = balance
        /\ pc[r] = "Completed"

\* the endpoint the specification fixes for each operational category
FixedEndpoint(c) ==
    CASE c = balance -> "account/balance"
      [] c = mini_statement -> "account/mini-statement"
      [] c = last_transaction -> "account/transactions"
      [] c = loan_balance -> "account/loan-balance"

\* the backend call execution r made
FetchCallOf(r) ==
    calls[r][CHOOSE i \in DOMAIN calls[r] :
                i \in CallsFrom(r, "fetch_bank_data")].call

\* C8: the routing table has exactly the four operational categories as
\* keys and no two of them share an endpoint; every backend call goes to
\* the one endpoint fixed for the request's category, and a request whose
\* category is anything else makes no backend call.
C8_StaticRouting ==
    /\ DOMAIN endpoint_map = Operational
    /\ \A c1, c2 \in DOMAIN endpoint_map :
          endpoint_map[c1] = endpoint_map[c2] => c1 = c2
    /\ \A r \in Requests :
          /\ Invoked(r, "fetch_bank_data")
             => /\ query_type[r] \in Operational
                /\ FetchCallOf(r).url =
                      << BANK_API_URL, "/", FixedEndpoint(query_type[r]) >>
          /\ query_type[r] \notin Operational
             => ~Invoked(r, "fetch_bank_data") /\ pc[r] # "Routed"

\* C8 witness: a backend call for loan_balance went to account/loan-balance
C8_Witness ==
    \E r \in Requests :
        /\ Invoked(r, "fetch_bank_data")
        /\ query_type[r] = loan_balance
        /\ FetchCallOf(r).url = << BANK_API_URL, "/", "account/loan-balance" >>

\* the calls execution r made to the text-generation service
ChatCalls(r) == {i \in DOMAIN calls[r] : calls[r][i].call.fn = "ollama.chat"}

\* C9: an execution makes the classification call once as soon as it
\* starts, and whatever the answers, never a second one; it makes at most
\* one backend call and at most one humanization call, hence at most two
\* calls to the text-generation service and three calls in all.
C9_NoRetry ==
    \A r \in Requests :
        /\ Cardinality(CallsFrom(r, "classify_query_with_deepseek")) =
              IF pc[r] \in {"Idle", "Received"} THEN 0 ELSE 1
        /\ Cardinality(CallsFrom(r, "fetch_bank_data")) <= 1
        /\ Cardinality(CallsFrom(r, "convert_json_to_readable_format")) <= 1
        /\ Cardinality(ChatCalls(r)) <= 2
        /\ Len(calls[r]) <= 3

\* C9 witness: a request that failed at the backend after one
\* classification call and one backend call
C9_Witness ==
    \E r \in Requests :
        /\ pc[r] = "Errored"
        /\ Answered(r, "fetch_bank_data", {"transport"})
        /\ Len(calls[r]) = 2

\* executions r1 and r2 got the same answers to their first n calls
SameAnswers(r1, r2, n) ==
    \A i \in 1..n : calls[r1][i].answer = calls[r2][i].answer

ShorterLen(r1, r2) ==
    IF Len(calls[r1]) <= Len(calls[r2]) THEN Len(calls[r1]) ELSE Len(calls[r2])

\* C10: two executions of bank_query with the same account number and
\* query text make the same call for as long as their earlier calls were
\* answered alike, and when both have ended and every call they both made
\* was answered alike, they made the same calls and ended the same way:
\* the same Reply, or the same exception with the same detail.
C10_Deterministic ==
    \A r1, r2 \in Requests :
        (request[r1] # NoRequest /\ request[r1] = request[r2])
        => /\ \A i \in 1..ShorterLen(r1, r2) :
                 SameAnswers(r1, r2, i - 1)
                 => calls[r1][i].call = calls[r2][i].call
           /\ ( /\ Terminal(r1)
                /\ Terminal(r2)
                /\ SameAnswers(r1, r2, ShorterLen(r1, r2)) )
              => /\ Len(calls[r1]) = Len(calls[r2])
                 /\ pc[r1] = pc[r2]
                 /\ outcome[r1] = outcome[r2]

\* C10 witness: two executions with the same request and the same three
\* answers, both completed with the same Reply
C10_Witness ==
    \E r1, r2 \in Requests :
        /\ r1 # r2
        /\ request[r1] = BankQuery("456", balance)
        /\ request[r2] = request[r1]
        /\ pc[r1] = "Completed"
        /\ pc[r2] = "Completed"
        /\ Len(calls[r1]) = 3
        /\ SameAnswers(r1, r2, 3)
        /\ outcome[r1] = Reply(<< "A", " ", "A" >>)
        /\ outcome[r2] = outcome[r1]

\* the calls of execution r that are in flight
InFlight(r) == {i \in DOMAIN calls[r] : calls[r][i].answer = Pending}

\* C11: the outbound calls of one execution are made in the order
\* classification, backend, humanization; the backend call is made only
\* once the classification call has answered with an operational label,
\* the humanization call only once the backend call has answered with a
\* body, and only the last call made can be in flight, so never two at once.
C11_Sequential ==
    \A r \in Requests :
        /\ Cardinality(InFlight(r)) <= 1
        /\ \A i \in InFlight(r) : i = Len(calls[r])
        /\ InFlight(r) # {} <=> pc[r] \in {"Classifying", "Fetching", "Humanizing"}
        /\ Len(calls[r]) >= 1
           => calls[r][1].call.caller = "classify_query_with_deepseek"
        /\ Len(calls[r]) >= 2
           => /\ calls[r][2].call.caller = "fetch_bank_data"
              /\ calls[r][1].answer.kind = "ok"
              /\ \E c \in Operational :
                    NormalizesTo(calls[r][1].answer.content, c)
        /\ Len(calls[r]) >= 3
           => /\ calls[r][3].call.caller = "convert_json_to_readable_format"
              /\ calls[r][2].answer.kind = "ok"

\* C11 witness: two executions each with a call in flight, one its
\* humanization call after two answered calls, the other its backend call
C11_Witness ==
    \E r1, r2 \in Requests :
        /\ pc[r1] = "Humanizing"
        /\ InFlight(r1) = {3}
        /\ pc[r2] = "Fetching"
        /\ InFlight(r2) = {2}

\* the endpoints of the routing table of the specification
FixedEndpoints == {FixedEndpoint(c) : c \in Operational}

\* C12: whenever the routing table is about to be indexed or has been
\* indexed (the execution passed the routing test), the category is one of
\* the four operational ones, never 'unknown' or unassigned, and every
\* backend call goes to one of the four fixed endpoints.
C12_RouterInputOperational ==
    \A r \in Requests :
        /\ pc[r] \in {"Routed", "Fetching", "Fetched", "Humanizing",
                      "Humanized", "Completed"}
           => query_type[r] \in Operational
        /\ \A i \in CallsFrom(r, "fetch_bank_data") :
              /\ query_type[r] \in Operational
              /\ \E e \in FixedEndpoints :
                    calls[r][i].call.url = << BANK_API_URL, "/", e >>

\* C12 witness: a request for mini_statement that passed the routing test
\* and whose backend call is in flight
C12_Witness ==
    \E r \in Requests :
        /\ pc[r] = "Fetching"
        /\ query_type[r] = mini_statement
        /\ FetchCallOf(r).url = << BANK_API_URL, "/", "account/mini-statement" >>

\* the i-th outbound call of bank_query run alone on request q, given the
\* answers a to its earlier calls
SoloCall(q, i, a) ==
    CASE i = 1 ->
           OllamaChat("classify_query_with_deepseek",
                      ClassifyPrompt(q.query_text))
      [] i = 2 ->
           RequestsPost(endpoint_map[ClassifyContent(a[1].content)],
                        [account_number |-> q.account_number])
      [] i = 3 ->
           OllamaChat("convert_json_to_readable_format",
                      HumanizePrompt(q.query_text, a[2].body))

\* what bank_query run alone on request q ends with, given the answers a
\* to its calls
SoloOutcome(q, a) ==
    IF a[1].kind # "ok"
    THEN Uncaught("classify_query_with_deepseek", a[1].text)
    ELSE IF ClassifyContent(a[1].content) \notin DOMAIN endpoint_map
    THEN HTTPException(BadRequest, NotRecognized)
    ELSE IF a[2].kind = "bad_json" /\ ~json_error_caught
    THEN Uncaught("fetch_bank_data", a[2].text)
    ELSE IF a[2].kind # "ok"
    THEN HTTPException(BadRequest, ApiErrorDetail(a[2].text))
    ELSE IF a[3].kind # "ok"
    THEN Uncaught("convert_json_to_readable_format", a[3].text)
    ELSE Reply(HumanizeResult(a[3].content))

\* the answers execution r got, in the order of its calls
AnswersOf(r) == [i \in DOMAIN calls[r] |-> calls[r][i].answer]

\* everything the model holds about execution r
StateOf(r) ==
    << pc[r], request[r], query_type[r], raw_response[r],
       readable_response[r], outcome[r], calls[r] >>

\* C13 (state part): whatever the other executions do, every call of an
\* execution is the call bank_query run alone would make from its own
\* request and its own earlier answers, and an execution that has ended
\* ended as bank_query run alone would with the same answers.
C13_AsIfAlone ==
    \A r \in Requests :
        request[r] # NoRequest
        => /\ \A i \in DOMAIN calls[r] :
                 calls[r][i].call = SoloCall(request[r], i, AnswersOf(r))
           /\ Terminal(r) => outcome[r] = SoloOutcome(request[r], AnswersOf(r))
           /\ ~Terminal(r) => outcome[r] = NoOutcome

\* C13 (step part): a step is a step of one execution and leaves what every
\* other execution holds as it was.
C13_OneExecutionPerStep ==
    \E r \in Requests :
        \A s \in Requests \ {r} : StateOf(s)' = StateOf(s)

\* C13: concurrent executions of bank_query do not interfere, in any
\* interleaving: each behaves as if run alone with its own answers, and no
\* step of one changes anything another holds.
C13_NoInterference == [] C13_AsIfAlone /\ [][C13_OneExecutionPerStep]_vars

\* C13 witness: two executions interleaved, with different accounts, query
\* texts, backend bodies and humanizer answers, each completed with the
\* Reply of its own humanizer answer
C13_Witness ==
    \E r1, r2 \in Requests :
        /\ pc[r1] = "Completed" /\ pc[r2] = "Completed"
        /\ request[r1].account_number # request[r2].account_number
        /\ request[r1].query_text # request[r2].query_text
        /\ raw_response[r1] # raw_response[r2]
        /\ outcome[r1] = Reply(<< "A" >>)
        /\ outcome[r2] = Reply(<< "A", " ", "A" >>)

\* the states of the specification's orchestrator that are not terminal;
\* while a call is in flight the execution is still in the state it was in
NonTerminal ==
    {"Received", "Classifying", "Classified", "Routed", "Fetching", "Fetched",
     "Humanizing", "Humanized"}

\* a step of execution r, with any request and any answer
AnyStep(r) ==
    Step(r, Queries, ChatAnswers(ClassifyContents), BankAnswers,
         ChatAnswers(HumanizeContents))

\* execution r can be in Errored after at most one, two, three of its steps
ErroredWithin1(r) == ENABLED (AnyStep(r) /\ pc'[r] = "Errored")
ErroredWithin2(r) ==
    ErroredWithin1(r) \/ ENABLED (AnyStep(r) /\ ErroredWithin1(r)')
ErroredWithin3(r) ==
    ErroredWithin2(r) \/ ENABLED (AnyStep(r) /\ ErroredWithin2(r)')

\* C14 as first stated: from every non-terminal state, Humanized included,
\* some steps of the execution lead to Errored (three steps are the most
\* any state needs).
C14_ErroredFromEveryState ==
    \A r \in Requests : pc[r] \in NonTerminal => ErroredWithin3(r)

\* a step of execution r in which every answer is a failure
FailingStep(r) ==
    Step(r, {}, {ChatError("connection refused")},
         {BankHttpError("500 Server Error")},
         {ChatError("connection refused")})

\* execution r can be in Errored after at most one, two, three steps in
\* which the calls fail
FailsWithin1(r) == ENABLED (FailingStep(r) /\ pc'[r] = "Errored")
FailsWithin2(r) == FailsWithin1(r) \/ ENABLED (FailingStep(r) /\ FailsWithin1(r)')
FailsWithin3(r) == FailsWithin2(r) \/ ENABLED (FailingStep(r) /\ FailsWithin2(r)')

\* C14 amended (state part): from Received, Classified, Routed and Fetched,
\* with or without a call in flight, Errored is reachable; a call in flight
\* can fail at once, and so can the routing test of an 'unknown' query.
C14_ErroredReachable ==
    \A r \in Requests :
        /\ pc[r] \in NonTerminal \ {"Humanized"} => FailsWithin3(r)
        /\ pc[r] \in {"Classifying", "Fetching", "Humanizing"}
           => FailsWithin1(r)
        /\ (pc[r] = "Classified" /\ query_type[r] = unknown) => FailsWithin1(r)

\* C14 amended (step part): the only step from Humanized is to Completed.
C14_HumanizedCompletes ==
    \A r \in Requests :
        (pc[r] = "Humanized" /\ pc'[r] # pc[r])
        => pc'[r] = "Completed" /\ outcome'[r].type = "return"

\* C14 amended: Errored is reachable from Received, Classified, Routed and
\* Fetched, and not from Humanized, whose only step is to Completed.
C14_ErroredReachability ==
    [] C14_ErroredReachable /\ [][C14_HumanizedCompletes]_vars

\* C14 witness: a request classified loan_balance, which cannot fail in its
\* next step but can within three (routing, backend call, backend failure)
C14_Witness ==
    \E r \in Requests :
        /\ pc[r] = "Classified"
        /\ query_type[r] = loan_balance
        /\ ~FailsWithin2(r)
        /\ FailsWithin3(r)

\* how far an execution is
Rank(state) ==
    CASE state = "Idle" -> 0
      [] state = "Received" -> 1
      [] state = "Classifying" -> 2
      [] state = "Classified" -> 3
      [] state = "Routed" -> 4
      [] state = "Fetching" -> 5
      [] state = "Fetched" -> 6
      [] state = "Humanizing" -> 7
      [] state = "Humanized" -> 8
      [] state \in {"Completed", "Errored"} -> 9

\* C15 (step part): a step of an execution moves it forward, never back to
\* a stage it has been in, and an execution that is Completed or Errored
\* stays exactly as it is.
C15_ForwardOnly ==
    \A r \in Requests :
        /\ pc'[r] # pc[r] => Rank(pc'[r]) > Rank(pc[r])
        /\ Terminal(r) => StateOf(r)' = StateOf(r)

\* C15: given that every issued call is answered or fails, every request
\* that was received ends Completed or Errored, and stays there; no step
\* goes back to an earlier stage.
C15_Terminates ==
    /\ \A r \in Requests : (pc[r] = "Received") ~> Terminal(r)
    /\ [][C15_ForwardOnly]_vars

\* C15 witness: a request with the empty query text that went through all
\* three calls and completed
C15_Witness ==
    \E r \in Requests :
        /\ pc[r] = "Completed"
        /\ request[r].query_text = << >>
        /\ Len(calls[r]) = 3
        /\ InFlight(r) = {}

\* the humanization call execution r made
HumanizeCallOf(r) ==
    calls[r][CHOOSE i \in DOMAIN calls[r] :
                i \in CallsFrom(r, "convert_json_to_readable_format")].call

\* C16: the backend call carries the request's own account number, and
\* nothing else, to the endpoint fixed for the request's category; the body
\* the backend answers with is kept as it came; the humanization prompt
\* carries the request's own query text and that body, both unchanged.
C16_DataPassedUnchanged ==
    \A r \in Requests :
        /\ Invoked(r, "fetch_bank_data")
           => /\ FetchCallOf(r).json =
                    [account_number |-> request[r].account_number]
              /\ FetchCallOf(r).url =
                    << BANK_API_URL, "/", FixedEndpoint(query_type[r]) >>
        /\ FetchedOk(r)
           => raw_response[r] = AnswerTo(r, "fetch_bank_data").body
        /\ Invoked(r, "convert_json_to_readable_format")
           => /\ FetchedOk(r)
              /\ HumanizeCallOf(r).messages[1].content.query_text =
                    request[r].query_text
              /\ HumanizeCallOf(r).messages[1].content.raw_json =
                    AnswerTo(r, "fetch_bank_data").body

\* C16 witness: the humanization prompt of a request of account 456 with
\* query text 'balance' carries that text and the body the backend gave
C16_Witness ==
    \E r \in Requests :
        /\ Invoked(r, "convert_json_to_readable_format")
        /\ request[r] = BankQuery("456", balance)
        /\ FetchCallOf(r).json = [account_number |-> "456"]
        /\ HumanizeCallOf(r).messages[1].content.query_text = balance
        /\ HumanizeCallOf(r).messages[1].content.raw_json =
              [transactions |-> << >>]

\* C17: the labels the classifier may return and the keys of the routing
\* table are the same four labels, so past the routing test an execution
\* was rejected with "Query not recognized" exactly when its category is
\* 'unknown', and went on exactly when it is one of the four.
C17_LabelsMatchRoutes ==
    /\ AllowedLabels = DOMAIN endpoint_map
    /\ AllowedLabels = Operational
    /\ \A r \in Requests :
          (ClassifiedOk(r) /\ pc[r] # "Classified")
          => /\ UnrecognizedQuery(outcome[r]) <=> query_type[r] = unknown
             /\ query_type[r] # unknown <=> query_type[r] \in DOMAIN endpoint_map
             /\ query_type[r] \in AllowedLabels
                => pc[r] = "Routed" \/ Invoked(r, "fetch_bank_data")

\* C17 witness: a request the classifier labelled last_transaction whose
\* backend call went to that label's routing entry
C17_Witness ==
    \E r \in Requests :
        /\ ClassifiedOk(r)
        /\ ClassifyContentOf(r) = last_transaction
        /\ query_type[r] = last_transaction
        /\ Invoked(r, "fetch_bank_data")
        /\ FetchCallOf(r).url = << BANK_API_URL, "/", "account/transactions" >>

=============================================================================
